---- MODULE Spec2Model ----
(***************************************************************************)
(* Heimdall: the rate-limit engine (in-process and remote store), the     *)
(* request middleware that composes it, and the session-token protocol.   *)
(*                                                                         *)
(* Time is a number of clock units; time.Now() reads the variable now.     *)
(* A worker is one goroutine serving one request at a time.                *)
(***************************************************************************)
EXTENDS Integers, Sequences, FiniteSets, TLC

\* ------------------------------------------------------------------ bounds

MaxTime == 3
MaxLimit == 2
MaxWindow == 2
MaxTicks == 3
MaxExpiration == 2
MaxLogins == 1
MaxCreates == 2

Workers == {"w1", "w2"}
IPs == {"10.0.0.1"}
UserIDs == {"", "u1"}

\* ------------------------------------------------------------------ state

VARIABLES
    now,        \* the wall clock read by time.Now()
    backend,    \* which RateLimitStore the limiter was built with
    enabled,    \* RateLimiter.enabled
    limit,      \* RateLimitConfig.Limit of the route
    window,     \* RateLimitConfig.Window of the route
    mstore,     \* MemoryStore.store: key -> RateLimitEntry (present keys only)
    mu,         \* MemoryStore.mu: [writer]
    tmp,        \* per worker: entry.Count loaded by entry.Count++
    rstore,     \* the Redis server's keyspace: key -> [val, ttl] (present keys only)
    pc,         \* per worker: position in the RateLimit handler
    req,        \* per worker: the request served [ip, user, cfgEnabled]
    phase,      \* per worker: which key checkRateLimit is running on
    ops,        \* history per worker: store calls the request has made
    res,        \* per worker: [outcome, failed] of the request served last
                \*   (the response; whether the store returned it an error)
    hist,       \* history per key: [t0, n, rets] of the current window
    jwtDuration,\* AuthHandler.jwtDuration
    gen,        \* the generateToken call in progress [pc, user, exp, iat]
    issued,     \* the token generateToken returned last [has, tok, user, at]
    val,        \* the validation made last [has, entry, tok, at, ok, claims]
    ticks,      \* how often the clock of the token service has advanced
    users,      \* Storage: the users table, id -> models.User
    tenants,    \* Storage: the tenants table, id -> models.Tenant
    login,      \* the Login call in progress [pc, tenant, user]
    resp,       \* the response written last [entry, status, error, chain, body]
    logins,     \* how many requests the Login handler has served
    roleCheck,  \* the RequireRole call made last [has, ctx, roles, to, error]
    created     \* history: the tenants the 201 responses of CreateTenant returned

cfgVars == <<backend, enabled, limit, window>>

memVars == <<mstore, mu, tmp>>

redisVars == <<rstore>>

limiterVars == <<now, cfgVars, memVars, redisVars, pc, req, phase, ops, res,
                 hist>>

storeVars == <<users, tenants>>

tenantVars == <<created>>

authVars == <<storeVars, login, resp, logins, roleCheck, tenantVars>>

tokVars == <<jwtDuration, gen, issued, val, ticks, authVars>>

vars == <<limiterVars, tokVars>>

NoWorker == "none"

\* fmt.Sprintf("rate_limit:ip:%s", ip), fmt.Sprintf("rate_limit:user:%s", userID)
ipKey(ip) ==
    <<"rate_limit", "ip", ip>>

userKey(userID) ==
    <<"rate_limit", "user", userID>>

Keys ==
    {ipKey(i) : i \in IPs} \cup {userKey(u) : u \in UserIDs \ {""}}

\* The key the worker's current checkRateLimit call runs on.
KeyOf(w) ==
    IF phase[w] = "ip" THEN ipKey(req[w].ip) ELSE userKey(req[w].user)

\* time.Time.After
After(t, u) ==
    t > u

\* ------------------------------------------------------------ MemoryStore

Cleanup_skipped(st, t) ==
    st

\* The purge loop of Increment: every entry whose ExpiresAt has passed goes.
Cleanup(st, t) ==
    [k \in {x \in DOMAIN st : ~After(t, st[x].ExpiresAt)} |-> st[k]]

NewEntry_one(t, win) ==
    [Count |-> 1, ExpiresAt |-> t + win]

NewEntry(t, win) ==
    [Count |-> 0, ExpiresAt |-> t + win]

\* Get or create the entry of key in the purged map.
GetOrCreate(st, key, t, win) ==
    IF key \in DOMAIN st THEN st ELSE (key :> NewEntry(t, win)) @@ st

MemGetCount_noExpiry(st, key, t) ==
    IF key \notin DOMAIN st THEN 0 ELSE st[key].Count

\* MemoryStore.GetCount, between RLock and RUnlock.
MemGetCount(st, key, t) ==
    IF key \notin DOMAIN st THEN 0
    ELSE IF After(t, st[key].ExpiresAt) THEN 0
    ELSE st[key].Count

CanLock_unguarded(m) ==
    TRUE

\* sync.RWMutex: Lock and RLock wait while a writer holds the mutex. A reader
\* holds it for one atomic read only, so no reader is ever seen holding it.
CanLock(m) ==
    m.writer = NoWorker

CanRLock(m) ==
    m.writer = NoWorker

\* ------------------------------------------------------------- RedisStore

\* A key without an expiry (TTL -1).
NoTTL == -1

\* A key the server still holds: present and not past its expiry.
RedisLive(st, key, t) ==
    /\ key \in DOMAIN st
    /\ (st[key].ttl = NoTTL \/ ~After(t, st[key].ttl))

\* INCR key: a missing key counts from 0 and is created without expiry.
RedisIncr(st, key, t) ==
    IF RedisLive(st, key, t)
    THEN [st EXCEPT ![key].val = @ + 1]
    ELSE (key :> [val |-> 1, ttl |-> NoTTL]) @@ st

\* EXPIRE key window: (re)sets the expiry of a key the server holds.
RedisExpire(st, key, t, win) ==
    IF RedisLive(st, key, t) THEN [st EXCEPT ![key].ttl = t + win] ELSE st

\* RedisStore.GetCount: GET key; redis.Nil is count 0.
RedisGetCount(st, key, t) ==
    IF RedisLive(st, key, t) THEN st[key].val ELSE 0

\* The server drops the keys whose expiry has passed.
RedisReap(st, t) ==
    [k \in {x \in DOMAIN st : RedisLive(st, x, t)} |-> st[k]]

\* ------------------------------------------------------------ RateLimiter

Disabled_both(en, cfgEn) ==
    ~en /\ ~cfgEn

\* if !r.enabled || !config.Enabled { return c.Next() }
Disabled(en, cfgEn) ==
    ~en \/ ~cfgEn

CheckDecision_above(count, lim) ==
    IF count > lim THEN "denied" ELSE "increment"

\* if count >= config.Limit { return error } else Increment
CheckDecision(count, lim) ==
    IF count >= lim THEN "denied" ELSE "increment"

AfterIP_noShortCircuit(err, userID) ==
    IF userID # "" THEN "user"
    ELSE IF err THEN "429_ip"
    ELSE "next"

\* What RateLimit does once checkRateLimit on the IP key returned.
AfterIP(err, userID) ==
    IF err THEN "429_ip"
    ELSE IF userID # "" THEN "user"
    ELSE "next"

AfterUser_ignoreErr(err) ==
    "next"

\* What RateLimit does once checkRateLimit on the user key returned.
AfterUser(err) ==
    IF err THEN "429_user" ELSE "next"

\* The request fields of a worker that has served none yet.
NoReq ==
    [ip |-> "10.0.0.1", user |-> "", cfgEnabled |-> TRUE]

\* A request leaves the RateLimit handler with response to.
Complete(w, to, o, fail) ==
    /\ pc' = [pc EXCEPT ![w] = "idle"]
    /\ ops' = [ops EXCEPT ![w] = o]
    /\ res' = [res EXCEPT ![w] = [outcome |-> to, failed |-> fail]]
    /\ UNCHANGED <<req, phase>>

\* The step of RateLimit after checkRateLimit returned (err: it returned an
\* error; o: the store calls made so far; fail: the error is the store's).
Continue(w, err, o, fail) ==
    LET to == IF phase[w] = "ip" THEN AfterIP(err, req[w].user) ELSE AfterUser(err)
    IN  IF to = "user"
        THEN /\ phase' = [phase EXCEPT ![w] = "user"]
             /\ pc' = [pc EXCEPT ![w] = "get"]
             /\ ops' = [ops EXCEPT ![w] = o]
             /\ UNCHANGED <<req, res>>
        ELSE Complete(w, to, o, fail)

\* checkRateLimit once GetCount returned count without error.
Decide(w, count, o) ==
    IF CheckDecision(count, limit) = "denied"
    THEN Continue(w, TRUE, o, FALSE)
    ELSE /\ pc' = [pc EXCEPT ![w] = "inc"]
         /\ ops' = [ops EXCEPT ![w] = o]
         /\ UNCHANGED <<phase, req, res>>

\* A request enters the RateLimit handler of a route; a disabled limiter or
\* route passes it on at once.
Start(w, ip, user, cfgEn) ==
    /\ pc[w] = "idle"
    /\ req' = [req EXCEPT ![w] = [ip |-> ip, user |-> user, cfgEnabled |-> cfgEn]]
    /\ phase' = [phase EXCEPT ![w] = "ip"]
    /\ ops' = [ops EXCEPT ![w] = <<>>]
    /\ IF Disabled(enabled, cfgEn)
       THEN /\ res' = [res EXCEPT ![w] = [outcome |-> "next", failed |-> FALSE]]
            /\ UNCHANGED pc
       ELSE /\ res' = [res EXCEPT ![w] = [outcome |-> "none", failed |-> FALSE]]
            /\ pc' = [pc EXCEPT ![w] = "get"]
    /\ UNCHANGED <<tokVars, now, cfgVars, memVars, redisVars, hist>>

\* History: an increment of a key at time t opens a window when none is open.
OpenWindow(h, t, win) ==
    IF h.n = 0 \/ t > h.t0 + win THEN [t0 |-> t, n |-> 0, rets |-> {}] ELSE h

\* History: an increment of the open window returned ret.
Counted(h, ret) ==
    [h EXCEPT !.n = @ + 1, !.rets = @ \cup {ret}]

Called_retried(w, op) ==
    Append(Append(ops[w], <<op, KeyOf(w)>>), <<op, KeyOf(w)>>)

\* History: one more store call of the request.
Called(w, op) ==
    Append(ops[w], <<op, KeyOf(w)>>)

MemGet_reaping(w) ==
    /\ backend = "memory"
    /\ pc[w] = "get"
    /\ CanRLock(mu)
    /\ Decide(w, MemGetCount(mstore, KeyOf(w), now), Called(w, "GetCount"))
    /\ mstore' = [k \in {x \in DOMAIN mstore :
                             x # KeyOf(w) \/ ~After(now, mstore[x].ExpiresAt)} |-> mstore[k]]
    /\ UNCHANGED <<tokVars, now, cfgVars, mu, tmp, redisVars, hist>>

\* MemoryStore.GetCount under the shared lock (RLock, read, RUnlock), then the
\* comparison of checkRateLimit with the limit.
MemGet(w) ==
    /\ backend = "memory"
    /\ pc[w] = "get"
    /\ CanRLock(mu)
    /\ Decide(w, MemGetCount(mstore, KeyOf(w), now), Called(w, "GetCount"))
    /\ UNCHANGED <<tokVars, now, cfgVars, memVars, redisVars, hist>>

\* MemoryStore.Increment: s.mu.Lock(), purge, get or create the entry, and the
\* load of entry.Count++.
MemLoad(w) ==
    /\ backend = "memory"
    /\ pc[w] = "inc"
    /\ CanLock(mu)
    /\ mu' = [mu EXCEPT !.writer = w]
    /\ ops' = [ops EXCEPT ![w] = Called(w, "Increment")]
    /\ LET key == KeyOf(w)
           st  == GetOrCreate(Cleanup(mstore, now), key, now, window)
       IN  /\ mstore' = st
           /\ tmp' = [tmp EXCEPT ![w] = st[key].Count]
           /\ hist' = [hist EXCEPT ![key] = OpenWindow(@, now, window)]
    /\ pc' = [pc EXCEPT ![w] = "inc_store"]
    /\ UNCHANGED <<tokVars, now, cfgVars, redisVars, req, phase, res>>

\* MemoryStore.Increment: the store of entry.Count++, the deferred Unlock and
\* return entry.Count, nil.
MemStore(w) ==
    /\ pc[w] = "inc_store"
    /\ LET key == KeyOf(w)
       IN  /\ mstore' = [mstore EXCEPT ![key].Count = tmp[w] + 1]
           /\ hist' = [hist EXCEPT ![key] = Counted(@, tmp[w] + 1)]
    /\ mu' = [mu EXCEPT !.writer = IF @ = w THEN NoWorker ELSE @]
    /\ tmp' = [tmp EXCEPT ![w] = 0]
    /\ Continue(w, FALSE, ops[w], FALSE)
    /\ UNCHANGED <<tokVars, now, cfgVars, redisVars>>

\* RedisStore.GetCount: one GET round trip, which answers or fails.
RedisGet(w) ==
    /\ backend = "redis"
    /\ pc[w] = "get"
    /\ \/ Decide(w, RedisGetCount(rstore, KeyOf(w), now), Called(w, "GetCount"))
       \/ Continue(w, TRUE, Called(w, "GetCount"), TRUE)
    /\ UNCHANGED <<tokVars, now, cfgVars, memVars, redisVars, hist>>

\* RedisStore.Increment: the pipeline is sent; the server runs its INCR, unless
\* the round trip fails before the server ran anything.
RedisPipeIncr(w) ==
    /\ backend = "redis"
    /\ pc[w] = "inc"
    /\ \/ /\ LET key == KeyOf(w)
                 st  == RedisIncr(rstore, key, now)
             IN  /\ rstore' = st
                 /\ hist' = [hist EXCEPT ![key] =
                                Counted(OpenWindow(@, now, window), st[key].val)]
          /\ pc' = [pc EXCEPT ![w] = "pipe_expire"]
          /\ ops' = [ops EXCEPT ![w] = Called(w, "Increment")]
          /\ UNCHANGED <<phase, req, res>>
       \/ /\ Continue(w, TRUE, Called(w, "Increment"), TRUE)
          /\ UNCHANGED <<rstore, hist>>
    /\ UNCHANGED <<tokVars, now, cfgVars, memVars>>

\* RedisStore.Increment: the server runs the pipeline's EXPIRE and pipe.Exec
\* returns: with the replies, with an error after the server ran it (the reply
\* is lost), or with an error before the server ran it (the connection broke).
RedisPipeExpire(w) ==
    /\ pc[w] = "pipe_expire"
    /\ \/ /\ rstore' = RedisExpire(rstore, KeyOf(w), now, window)
          /\ Continue(w, FALSE, ops[w], FALSE)
       \/ /\ rstore' = RedisExpire(rstore, KeyOf(w), now, window)
          /\ Continue(w, TRUE, ops[w], TRUE)
       \/ /\ Continue(w, TRUE, ops[w], TRUE)
          /\ UNCHANGED rstore
    /\ UNCHANGED <<tokVars, now, cfgVars, memVars, hist>>

\* The clock advances.
Tick ==
    /\ now < MaxTime
    /\ now' = now + 1
    /\ UNCHANGED <<tokVars, cfgVars, memVars, redisVars, pc, req, phase, ops, res, hist>>

\* The clock advances and the Redis server drops the keys that expired. The two
\* commands of a pipeline reach the server together: no clock unit passes between
\* them (commands of other clients may).
RedisTick ==
    /\ now < MaxTime
    /\ \A w \in Workers : pc[w] # "pipe_expire"
    /\ now' = now + 1
    /\ rstore' = RedisReap(rstore, now + 1)
    /\ UNCHANGED <<tokVars, cfgVars, memVars, pc, req, phase, ops, res, hist>>

\* ----------------------------------------------------------- TokenService

\* Clock units (milliseconds) of the time package.
Second == 1000

Minute == 60 * Second

Hour == 60 * Minute

Day == 24 * Hour

\* cfg.JWT.Secret, handed to NewAuthHandler and to NewAuthMiddleware.
JWTSecret == "your-secret-key"

Roles == {"admin", "user", "read_only"}

\* The users a token is issued to.
Users ==
    { [ID |-> "u1", TenantID |-> "t1", Role |-> "admin"],
      [ID |-> "u2", TenantID |-> "t2", Role |-> "user"],
      [ID |-> "u3", TenantID |-> "t1", Role |-> "read_only"] }

NoUser == [ID |-> "", TenantID |-> "", Role |-> ""]

\* config.Load: time.Duration(jwtExpiration) * time.Hour * 24
AccessExpiration(n) ==
    n * Hour * 24

\* jwt.NewNumericDate: the time truncated to jwt.TimePrecision, one second.
NewNumericDate(t) ==
    t - (t % Second)

GenClaims_swapped(user, exp, iat, nbf) ==
    [UserID |-> user.TenantID, TenantID |-> user.ID, Role |-> user.Role,
     ExpiresAt |-> exp, IssuedAt |-> iat, NotBefore |-> nbf]

\* The models.Claims literal of generateToken.
GenClaims(user, exp, iat, nbf) ==
    [UserID |-> user.ID, TenantID |-> user.TenantID, Role |-> user.Role,
     ExpiresAt |-> exp, IssuedAt |-> iat, NotBefore |-> nbf]

NoClaims == GenClaims(NoUser, 0, 0, 0)

\* The JSON payload of models.Claims: the json tags, dates in whole seconds.
MarshalClaims(c) ==
    [user_id |-> c.UserID, tenant_id |-> c.TenantID, role |-> c.Role,
     exp |-> c.ExpiresAt \div Second, iat |-> c.IssuedAt \div Second,
     nbf |-> c.NotBefore \div Second]

\* Decoding the payload into models.Claims.
UnmarshalClaims(p) ==
    [UserID |-> p.user_id, TenantID |-> p.tenant_id, Role |-> p.role,
     ExpiresAt |-> p.exp * Second, IssuedAt |-> p.iat * Second,
     NotBefore |-> p.nbf * Second]

\* The MAC of a signing string: equal only for the same algorithm, key and string.
HMAC(alg, key, payload) ==
    <<alg, key, payload>>

\* jwt.NewWithClaims(method, claims) and token.SignedString(key).
SignedString(alg, claims, key) ==
    LET p == MarshalClaims(claims)
    IN  [alg |-> alg, payload |-> p, sig |-> HMAC(alg, key, p)]

NoToken == [alg |-> "", payload |-> MarshalClaims(NoClaims), sig |-> <<>>]

\* The HMAC signing methods the jwt package registers.
HMACAlgs == {"HS256", "HS384", "HS512"}

\* jwt.ParseWithClaims with a key function that returns []byte(secret): the
\* method named by the header verifies the signature with the key (the none
\* method refuses a []byte key), then exp and nbf are checked against the clock.
ParseWithClaims_noExpiry(tok, key, t) ==
    LET c == UnmarshalClaims(tok.payload)
        failed(e) == [err |-> e, ok |-> FALSE, claims |-> NoClaims]
    IN  IF tok.alg \notin HMACAlgs THEN failed("unverifiable")
        ELSE IF tok.sig # HMAC(tok.alg, key, tok.payload) THEN failed("signature")
        ELSE IF t < c.NotBefore THEN failed("not valid yet")
        ELSE [err |-> "", ok |-> TRUE, claims |-> c]

\* The result has err (the error returned, "" for nil), ok (token.Valid, set only
\* when no check failed) and the claims.
ParseWithClaims(tok, key, t) ==
    LET c == UnmarshalClaims(tok.payload)
        failed(e) == [err |-> e, ok |-> FALSE, claims |-> NoClaims]
    IN  IF tok.alg = "" THEN failed("malformed")
        ELSE IF tok.alg \notin HMACAlgs THEN failed("unverifiable")
        ELSE IF tok.sig # HMAC(tok.alg, key, tok.payload) THEN failed("signature")
        ELSE IF ~(t < c.ExpiresAt) THEN failed("expired")
        ELSE IF t < c.NotBefore THEN failed("not valid yet")
        ELSE [err |-> "", ok |-> TRUE, claims |-> c]

NoIssued == [has |-> FALSE, tok |-> NoToken, user |-> NoUser, at |-> 0]

NoVal ==
    [has |-> FALSE, entry |-> "", tok |-> NoToken, at |-> 0, ok |-> FALSE,
     claims |-> NoClaims]

\* generateToken(u) entered: ExpiresAt is computed from the handler's jwtDuration.
GenStart(u) ==
    [pc |-> "iat", user |-> u, exp |-> NewNumericDate(now + jwtDuration), iat |-> 0]

\* generateToken: the claims literal reads time.Now() for ExpiresAt. (The
\* histories follow one token at a time: the one of this call.)
GenExp(u) ==
    /\ gen.pc = "idle"
    /\ gen' = GenStart(u)
    /\ issued' = NoIssued
    /\ val' = NoVal
    /\ UNCHANGED <<limiterVars, jwtDuration, ticks, authVars>>

\* generateToken: the claims literal reads time.Now() for IssuedAt.
GenIat ==
    /\ gen.pc = "iat"
    /\ gen' = [gen EXCEPT !.pc = "nbf", !.iat = NewNumericDate(now)]
    /\ UNCHANGED <<limiterVars, jwtDuration, issued, val, ticks, authVars>>

\* generateToken: time.Now() for NotBefore, then the token is signed with
\* HS256 and the handler's secret and returned.
GenSign ==
    /\ gen.pc = "nbf"
    /\ issued' = [has |-> TRUE,
                  tok |-> SignedString("HS256",
                              GenClaims(gen.user, gen.exp, gen.iat, NewNumericDate(now)),
                              JWTSecret),
                  user |-> gen.user, at |-> now]
    /\ gen' = [pc |-> "idle", user |-> NoUser, exp |-> 0, iat |-> 0]
    /\ UNCHANGED <<limiterVars, jwtDuration, val, ticks, authVars>>

\* A string that is not a token.
Malformed ==
    [alg |-> "", payload |-> MarshalClaims(NoClaims), sig |-> <<>>]

\* What a client can present once a token was issued: the token, the token
\* with a changed payload, tokens made without the secret, a token that a holder
\* of the secret signed with another HMAC method, and a string that is no token.
Presented ==
    IF ~issued.has THEN {}
    ELSE LET t == issued.tok
             p == [t.payload EXCEPT !.role = "admin", !.tenant_id = "t2"]
         IN  { t,
               [t EXCEPT !.payload = p],
               [alg |-> "HS256", payload |-> p, sig |-> HMAC("HS256", "guess", p)],
               [alg |-> "none", payload |-> p, sig |-> <<>>],
               [alg |-> "HS384", payload |-> t.payload,
                sig |-> HMAC("HS384", JWTSecret, t.payload)],
               Malformed }

\* Router.SetupRoutes: the handlers of a route, in the order they run.
Chain(route) ==
    CASE route = "login" -> <<"RateLimit", "Login">>
      [] route = "validate-token" -> <<"ValidateToken">>
      [] route = "protected" -> <<"Authenticate", "Handler">>
      [] route = "tenants" -> <<"CreateTenant">>
      [] route = "tenant-config" -> <<"Authenticate", "UpdateTenantConfig">>
      [] route = "tenant-users" -> <<"Authenticate", "ListUsers">>

NoBody ==
    [valid |-> FALSE, token |-> NoToken, expiresIn |-> 0, id |-> "",
     username |-> "", role |-> "", tenant |-> "", config |-> 0, expiresAt |-> 0]

NoResp ==
    [entry |-> "", status |-> 0, error |-> "", chain |-> <<>>, body |-> NoBody]

\* A response of a route whose first n handlers ran.
Response(route, n, entry, status, error, body) ==
    [entry |-> entry, status |-> status, error |-> error,
     chain |-> SubSeq(Chain(route), 1, n), body |-> body]

\* Authenticate after jwt.ParseWithClaims returned r: 401 "Invalid token" on an
\* error and on an invalid token, else the claims go to the context and the
\* route's handler (here /me, which returns them) runs.
AuthenticateResponse(r) ==
    IF r.err # "" THEN Response("protected", 1, "Authenticate", 401, "Invalid token", NoBody)
    ELSE IF ~r.ok THEN Response("protected", 1, "Authenticate", 401, "Invalid token", NoBody)
    ELSE Response("protected", 2, "Authenticate", 200, "",
                  [NoBody EXCEPT !.id = r.claims.UserID, !.role = r.claims.Role,
                                 !.tenant = r.claims.TenantID,
                                 !.expiresAt = r.claims.ExpiresAt])

\* AuthMiddleware.Authenticate on "Bearer <token>": jwt.ParseWithClaims with
\* the middleware's secret, then err and token.Valid decide.
Authenticate(tok) ==
    /\ LET r == ParseWithClaims(tok, JWTSecret, now)
       IN  /\ val' = [has |-> TRUE, entry |-> "Authenticate", tok |-> tok,
                      at |-> now, ok |-> r.ok, claims |-> r.claims]
           /\ resp' = AuthenticateResponse(r)
    /\ UNCHANGED <<limiterVars, jwtDuration, gen, issued, ticks, storeVars, login,
                   logins, roleCheck, tenantVars>>

\* An Authorization header as strings.Split(authHeader, " ") cuts it: the first
\* part and the parts after it (the header is the parts joined by one space;
\* the empty header is the empty scheme alone).
Header(scheme, rest) ==
    [scheme |-> scheme, rest |-> rest]

\* The headers a client sends: none, a scheme alone, a token behind "Bearer",
\* behind other first parts (another case, another scheme, a leading space), and
\* a third part behind the token.
AuthHeaders ==
    {Header("", <<>>), Header("Bearer", <<>>)}
        \cup {Header(s, <<t>>) : s \in {"Bearer", "bearer", "Basic", ""}, t \in Presented}
        \cup {Header("Bearer", <<t, Malformed>>) : t \in Presented}

HeaderCheck_schemeOnly(h) ==
    IF h.scheme = "" /\ h.rest = <<>> THEN "Missing authorization header"
    ELSE IF 1 + Len(h.rest) < 2 \/ h.scheme # "Bearer"
    THEN "Invalid authorization header format"
    ELSE ""

\* Authenticate: authHeader == "", then len(parts) != 2 || parts[0] != "Bearer";
\* the error of the 401 a check writes, "" when the header passes both.
HeaderCheck(h) ==
    IF h.scheme = "" /\ h.rest = <<>> THEN "Missing authorization header"
    ELSE IF 1 + Len(h.rest) # 2 \/ h.scheme # "Bearer"
    THEN "Invalid authorization header format"
    ELSE ""

\* AuthMiddleware.Authenticate on a request with Authorization header h: the two
\* header checks, then the token parts[1] goes to jwt.ParseWithClaims.
AuthenticateHeader(h) ==
    IF HeaderCheck(h) # ""
    THEN /\ resp' = Response("protected", 1, "Authenticate", 401, HeaderCheck(h), NoBody)
         /\ val' = NoVal
         /\ UNCHANGED <<limiterVars, jwtDuration, gen, issued, ticks, storeVars, login,
                        logins, roleCheck, tenantVars>>
    ELSE Authenticate(h.rest[1])

\* The "user" local of a request context that no Authenticate has written.
NoLocals ==
    [present |-> FALSE, claims |-> NoClaims]

\* c.Locals("user") after Authenticate stored the claims r.claims.
Locals(claims) ==
    [present |-> TRUE, claims |-> claims]

RequireRoleResponse_emptyAllows(ctx, roles) ==
    IF ~ctx.present THEN [to |-> "401", error |-> "User not found in context"]
    ELSE IF roles = {} \/ ctx.claims.Role \in roles THEN [to |-> "next", error |-> ""]
    ELSE [to |-> "403", error |-> "Insufficient permissions"]

\* The handler RequireRole(roles...) returns: the type assertion on
\* c.Locals("user"), the loop over roles, and the 403 after the loop.
RequireRoleResponse(ctx, roles) ==
    IF ~ctx.present THEN [to |-> "401", error |-> "User not found in context"]
    ELSE IF \E role \in roles : ctx.claims.Role = role THEN [to |-> "next", error |-> ""]
    ELSE [to |-> "403", error |-> "Insufficient permissions"]

NoRoleCheck ==
    [has |-> FALSE, ctx |-> NoLocals, roles |-> {}, to |-> "", error |-> ""]

\* RequireRole(roles...) runs on a request: behind Authenticate, whose c.Next()
\* left the accepted claims in the context, or on a route without Authenticate.
RequireRole(behindAuthenticate, roles) ==
    /\ behindAuthenticate => (val.has /\ val.entry = "Authenticate" /\ val.ok)
    /\ LET ctx == IF behindAuthenticate THEN Locals(val.claims) ELSE NoLocals
           out == RequireRoleResponse(ctx, roles)
       IN  roleCheck' = [has |-> TRUE, ctx |-> ctx, roles |-> roles, to |-> out.to,
                         error |-> out.error]
    /\ UNCHANGED <<limiterVars, jwtDuration, gen, issued, val, ticks, storeVars, login,
                   resp, logins, tenantVars>>

\* The steps by which the clock of the token service advances.
TickSteps == {Second \div 2, Minute, Day}

\* The clock advances; a generateToken call in progress takes less than a second
\* a step (it computes in memory).
TokTick(d) ==
    /\ ticks < MaxTicks
    /\ gen.pc # "idle" => d < Second
    /\ now' = now + d
    /\ ticks' = ticks + 1
    /\ UNCHANGED <<cfgVars, memVars, redisVars, pc, req, phase, ops, res, hist,
                   jwtDuration, gen, issued, val, authVars>>

\* ---------------------------------------------------------------- Storage

\* bcrypt.GenerateFromPassword and bcrypt.CompareHashAndPassword.
Hash(pw) ==
    <<"bcrypt", pw>>

CompareHashAndPassword(h, pw) ==
    h = Hash(pw)

\* The zero time of User.LastLogin.
NeverLoggedIn == -1

\* A row of the users table.
StoredUser(id, tenant, name, pw, role) ==
    [ID |-> id, TenantID |-> tenant, Username |-> name, Password |-> Hash(pw),
     Role |-> role, LastLogin |-> NeverLoggedIn]

NoStoredUser == StoredUser("", "", "", "", "")

\* models.TenantConfig, written at time at.
TenantConfig(tenantID, method, jwt, ip, user, win, at) ==
    [TenantID |-> tenantID, AuthMethod |-> method, JWTDuration |-> jwt,
     RateLimitIP |-> ip, RateLimitUser |-> user, RateLimitWindow |-> win,
     CreatedAt |-> at, UpdatedAt |-> at]

\* A row of the tenants table with its TenantConfig (names are sequences of
\* characters).
Tenant(id, duration) ==
    [ID |-> id, Name |-> <<"o", "r", "g", id>>,
     Config |-> TenantConfig(id, "username_password", duration, 1, 1, 1, 0)]

NoTenant == Tenant("", 0)

\* The users tables the service runs on: one with unique usernames, one of
\* them spelled like another user's id, and (on the in-memory storage, which has
\* no unique index) one with the same username in two tenants.
UserTables ==
    { ("u1" :> StoredUser("u1", "t1", "alice", "p1", "admin")) @@
      ("u2" :> StoredUser("u2", "t2", "u1", "p2", "user")),
      ("u1" :> StoredUser("u1", "t1", "alice", "p1", "admin")) @@
      ("u3" :> StoredUser("u3", "t2", "alice", "p2", "read_only")) }

\* The tenants table: the JWTDuration of t1 is 1, of t2 is 2.
TenantTable ==
    ("t1" :> Tenant("t1", 1)) @@ ("t2" :> Tenant("t2", 2))

\* The login requests sent: tenant_id of the path, username and password of
\* the body (t9 is no tenant, nobody no user).
LoginInputs ==
    { <<"t1", "alice", "p1">>, <<"t1", "alice", "p2">>, <<"t2", "alice", "p1">>,
      <<"t2", "u1", "p2">>, <<"t1", "nobody", "p1">>, <<"t9", "alice", "p1">> }

\* Storage.GetTenant: the row of the id, or ErrTenantNotFound.
GetTenant(ts, id) ==
    IF id \in DOMAIN ts THEN [err |-> "", tenant |-> ts[id]]
    ELSE [err |-> "tenant not found", tenant |-> NoTenant]

\* Storage.GetUserByUsername: the rows it may return (the in-memory storage
\* returns the first match of a map iteration); none is ErrUserNotFound.
GetUserByUsername(us, username) ==
    {us[i] : i \in {j \in DOMAIN us : us[j].Username = username}}

\* Storage.UpdateUserLastLogin on a storage that takes the write.
UpdateUserLastLogin(us, id, t) ==
    IF id \in DOMAIN us THEN [us EXCEPT ![id].LastLogin = t] ELSE us

\* ------------------------------------------------------------ AuthHandler

\* authenticateWithUsernamePassword: the results [err, user] it may return.
authenticateWithUsernamePassword(us, username, password) ==
    LET failed(e) == [err |-> e, user |-> NoStoredUser]
        found == GetUserByUsername(us, username)
    IN  IF username = "" \/ password = "" THEN {failed("invalid credentials")}
        ELSE IF found = {} THEN {failed("user not found")}
        ELSE {IF CompareHashAndPassword(u.Password, password)
              THEN [err |-> "", user |-> u]
              ELSE failed("invalid credentials") : u \in found}

LoginCause_noTenantCheck(ts, tenantID, a) ==
    IF GetTenant(ts, tenantID).err # "" THEN "tenant not found"
    ELSE IF a.err # "" THEN a.err
    ELSE ""

\* Login: the check that ends the request, "" if none does (a: the result of
\* authenticateWithUsernamePassword).
LoginCause(ts, tenantID, a) ==
    IF GetTenant(ts, tenantID).err # "" THEN "tenant not found"
    ELSE IF a.err # "" THEN a.err
    ELSE IF a.user.TenantID # tenantID THEN "tenant mismatch"
    ELSE ""

\* Login: the error message of the 401 response each failed check writes.
LoginError(cause) ==
    CASE cause = "tenant not found" -> "Invalid tenant"
      [] cause = "user not found" -> "Invalid credentials"
      [] cause = "invalid credentials" -> "Invalid credentials"
      [] cause = "tenant mismatch" -> "Invalid tenant"

\* No Login call in progress.
NoLogin ==
    [pc |-> "idle", tenant |-> "", username |-> "", password |-> "", user |-> "",
     cause |-> "", expiresIn |-> 0, updateFailed |-> FALSE]

Admitted_always(outcome) ==
    outcome \in {"next", "429_ip", "429_user"}

\* The login route is RateLimit then Login: the handler runs when the limiter
\* returned c.Next(), never after its 429.
Admitted(outcome) ==
    outcome = "next"

\* Login, called by the rate limiter's c.Next() of worker w: from the tenant
\* lookup to the tenant check, then generateToken is entered.
Login(w, tenantID, username, password) ==
    /\ pc[w] = "idle"
    /\ Admitted(res[w].outcome)
    /\ login.pc = "idle"
    /\ gen.pc = "idle"
    /\ res' = [res EXCEPT ![w].outcome = "handled"]
    /\ logins' = logins + 1
    /\ \E a \in authenticateWithUsernamePassword(users, username, password) :
          LET cause == LoginCause(tenants, tenantID, a)
              call  == [NoLogin EXCEPT !.tenant = tenantID, !.username = username,
                                       !.password = password, !.cause = cause]
          IN  IF cause = ""
              THEN /\ login' = [call EXCEPT !.pc = "token", !.user = a.user.ID,
                                    !.expiresIn = tenants[tenantID].Config.JWTDuration]
                   /\ gen' = GenStart(a.user)
                   /\ issued' = NoIssued
                   /\ val' = NoVal
                   /\ resp' = NoResp
              ELSE /\ login' = call
                   /\ resp' = Response("login", 2, "Login", 401, LoginError(cause), NoBody)
                   /\ UNCHANGED <<gen, issued, val>>
    /\ UNCHANGED <<now, cfgVars, memVars, redisVars, pc, req, phase, ops, hist,
                   jwtDuration, ticks, storeVars, roleCheck, tenantVars>>

LoginResponse_failOnUpdate(updateFails, tok, expiresIn, user) ==
    IF updateFails
    THEN Response("login", 2, "Login", 500, "Failed to update last login", NoBody)
    ELSE Response("login", 2, "Login", 200, "", [NoBody EXCEPT !.token = tok])

\* Login: the response written after UpdateUserLastLogin returned (with an
\* error or without): models.LoginResponse{Token, ExpiresIn, User}.
LoginResponse(updateFails, tok, expiresIn, user) ==
    Response("login", 2, "Login", 200, "",
             [NoBody EXCEPT !.token = tok, !.expiresIn = expiresIn, !.id = user.ID,
                            !.username = user.Username, !.role = user.Role,
                            !.tenant = user.TenantID])

\* Login once generateToken returned: UpdateUserLastLogin, whose error goes to
\* c.Locals("error") only, and the LoginResponse.
LoginFinish(updateFails) ==
    /\ login.pc = "token"
    /\ gen.pc = "idle"
    /\ issued.has
    /\ users' = IF updateFails THEN users ELSE UpdateUserLastLogin(users, login.user, now)
    /\ login' = [login EXCEPT !.pc = "idle", !.updateFailed = updateFails]
    /\ resp' = LoginResponse(updateFails, issued.tok, login.expiresIn, issued.user)
    /\ UNCHANGED <<limiterVars, jwtDuration, gen, issued, val, ticks, tenants, logins,
                   roleCheck, tenantVars>>

ValidateTokenResponses_leaky(r, us, ts) ==
    LET deny(e) == Response("validate-token", 1, "ValidateToken", 401, e, NoBody)
        found == GetUserByUsername(us, r.claims.UserID)
        t == GetTenant(ts, r.claims.TenantID)
    IN  IF r.err # "" THEN {deny(r.err)}
        ELSE IF found = {} THEN {deny("User not found")}
        ELSE IF t.err # "" THEN {deny("Invalid tenant")}
        ELSE {Response("validate-token", 1, "ValidateToken", 200, "",
                  [NoBody EXCEPT !.valid = TRUE, !.id = u.ID]) : u \in found}

\* ValidateToken after jwt.ParseWithClaims returned r: the responses it may
\* write (the user lookup may return any row of the username).
ValidateTokenResponses(r, us, ts) ==
    LET deny(e) == Response("validate-token", 1, "ValidateToken", 401, e, NoBody)
        found == GetUserByUsername(us, r.claims.UserID)
        t == GetTenant(ts, r.claims.TenantID)
    IN  IF r.err # "" THEN {deny("Invalid token")}
        ELSE IF ~r.ok THEN {deny("Invalid token claims")}
        ELSE IF found = {} THEN {deny("User not found")}
        ELSE IF t.err # "" THEN {deny("Invalid tenant")}
        ELSE {Response("validate-token", 1, "ValidateToken", 200, "",
                  [NoBody EXCEPT !.valid = TRUE, !.id = u.ID, !.username = u.Username,
                                 !.role = u.Role, !.tenant = t.tenant.ID,
                                 !.config = t.tenant.Config.JWTDuration,
                                 !.expiresAt = r.claims.ExpiresAt]) : u \in found}

\* AuthHandler.ValidateToken on "Bearer <token>".
ValidateToken(tok) ==
    /\ LET r == ParseWithClaims(tok, JWTSecret, now)
       IN  \E out \in ValidateTokenResponses(r, users, tenants) :
              /\ resp' = out
              /\ val' = [has |-> TRUE, entry |-> "ValidateToken", tok |-> tok,
                         at |-> now, ok |-> out.body.valid, claims |-> r.claims]
    /\ UNCHANGED <<limiterVars, jwtDuration, gen, issued, ticks, storeVars, login,
                   logins, roleCheck, tenantVars>>

\* A row of the users table is removed (by whoever manages the table: the
\* service has no route that writes it).
DeleteUser(id) ==
    /\ id \in DOMAIN users
    /\ users' = [i \in DOMAIN users \ {id} |-> users[i]]
    /\ UNCHANGED <<limiterVars, jwtDuration, gen, issued, val, ticks, tenants, login,
                   resp, logins, roleCheck, tenantVars>>

\* A row of the tenants table is removed.
DeleteTenant(id) ==
    /\ id \in DOMAIN tenants
    /\ tenants' = [i \in DOMAIN tenants \ {id} |-> tenants[i]]
    /\ UNCHANGED <<limiterVars, jwtDuration, gen, issued, val, ticks, users, login,
                   resp, logins, roleCheck, tenantVars>>

\* ---------------------------------------------------------- TenantHandler

\* InMemoryStorage.CreateTenant: s.tenants[tenant.ID] = tenant.
StorageCreateTenant(ts, t) ==
    [k \in DOMAIN ts \cup {t.ID} |-> IF k = t.ID THEN t ELSE ts[k]]

\* Storage.UpdateTenantConfig: the row is looked up by config.TenantID and its
\* config replaced; the result is [err, tenants].
StorageUpdateTenantConfig(ts, cfg) ==
    IF cfg.TenantID \in DOMAIN ts
    THEN [err |-> "", tenants |-> [ts EXCEPT ![cfg.TenantID].Config = cfg]]
    ELSE [err |-> "tenant not found", tenants |-> ts]

\* A decoded CreateTenantRequest (parsed: c.BodyParser returned no error; a
\* number missing from the JSON is 0; the description is within its 500
\* characters).
CreateBody(parsed, name, method, jwt, ip, user, win) ==
    [parsed |-> parsed, Name |-> name, AuthMethod |-> method, JWTDuration |-> jwt,
     RateLimitIP |-> ip, RateLimitUser |-> user, RateLimitWindow |-> win]

\* A decoded UpdateTenantConfigRequest.
UpdateBody(parsed, method, jwt, ip, user, win) ==
    [parsed |-> parsed, AuthMethod |-> method, JWTDuration |-> jwt,
     RateLimitIP |-> ip, RateLimitUser |-> user, RateLimitWindow |-> win]

NoUpdateBody == UpdateBody(FALSE, "", 0, 0, 0, 0)

\* The validate tags shared by both requests: auth_method required and
\* oneof=username_password, the four numbers required and min=1.
ValidateConfig(b) ==
    /\ b.AuthMethod # "" /\ b.AuthMethod \in {"username_password"}
    /\ b.JWTDuration # 0 /\ b.JWTDuration >= 1
    /\ b.RateLimitIP # 0 /\ b.RateLimitIP >= 1
    /\ b.RateLimitUser # 0 /\ b.RateLimitUser >= 1
    /\ b.RateLimitWindow # 0 /\ b.RateLimitWindow >= 1

\* validation.ValidateStruct(CreateTenantRequest): name required, min=3, max=50.
ValidateCreate(b) ==
    /\ Len(b.Name) >= 3 /\ Len(b.Name) <= 50
    /\ ValidateConfig(b)

\* The bodies posted to /tenants: two valid ones, a name too short, a missing
\* jwt_duration, and one that is not JSON.
CreateBodies ==
    { CreateBody(TRUE, <<"a", "c", "m", "e">>, "username_password", 2, 2, 2, 2),
      CreateBody(TRUE, <<"i", "n", "i", "t">>, "username_password", 1, 2, 1, 2),
      CreateBody(TRUE, <<"a", "b">>, "username_password", 2, 2, 2, 2),
      CreateBody(TRUE, <<"a", "c", "m", "e">>, "username_password", 0, 2, 2, 2),
      CreateBody(FALSE, <<>>, "", 0, 0, 0, 0) }

\* The bodies put to /tenants/:tenant_id/config: two valid ones, a missing
\* number, a negative one, an unknown and a missing auth_method, and one that is
\* not JSON.
UpdateBodies ==
    { UpdateBody(TRUE, "username_password", 2, 2, 2, 2),
      UpdateBody(TRUE, "username_password", 3, 3, 3, 3),
      UpdateBody(TRUE, "username_password", 2, 0, 2, 2),
      UpdateBody(TRUE, "username_password", 2, 2, 2, -1),
      UpdateBody(TRUE, "otp", 2, 2, 2, 2),
      UpdateBody(TRUE, "", 2, 2, 2, 2),
      NoUpdateBody }

\* The :tenant_id of a request path: the two tenants of the table, an id that
\* is none, and the empty parameter.
TenantParams == {"t1", "t2", "t9", ""}

\* TenantHandler.CreateTenant (a public route): parse, validate, build the
\* tenant (no ID, and no TenantID in its config, is assigned), store it, 201
\* with the tenant.
CreateTenant(b) ==
    /\ Len(created) < MaxCreates
    /\ LET deny(e) == Response("tenants", 1, "CreateTenant", 400, e, NoBody)
           t == [ID |-> "", Name |-> b.Name,
                 Config |-> TenantConfig("", b.AuthMethod, b.JWTDuration, b.RateLimitIP,
                                         b.RateLimitUser, b.RateLimitWindow, now)]
       IN  IF ~b.parsed
           THEN resp' = deny("Invalid request body") /\ UNCHANGED <<tenants, created>>
           ELSE IF ~ValidateCreate(b)
           THEN resp' = deny("validation failed") /\ UNCHANGED <<tenants, created>>
           ELSE /\ tenants' = StorageCreateTenant(tenants, t)
                /\ created' = Append(created, tenants'[t.ID])
                /\ resp' = Response("tenants", 1, "CreateTenant", 201, "",
                                    [NoBody EXCEPT !.id = t.ID, !.tenant = t.Config.TenantID,
                                                   !.config = t.Config.JWTDuration])
    /\ UNCHANGED <<limiterVars, jwtDuration, gen, issued, val, ticks, users, login,
                   logins, roleCheck>>

\* UpdateTenantConfig once Authenticate passed the request on: the responses
\* [tenants, resp] of the parameter check, the tenant lookup, parsing,
\* validation, the six assignments to tenant.Config and
\* storage.UpdateTenantConfig(&tenant.Config).
UpdateTenantConfigResult(ts, tenantID, b, t) ==
    LET deny(status, e) ==
            [tenants |-> ts,
             resp |-> Response("tenant-config", 2, "UpdateTenantConfig", status, e, NoBody)]
        cfg == [ts[tenantID].Config EXCEPT !.AuthMethod = b.AuthMethod,
                                           !.JWTDuration = b.JWTDuration,
                                           !.RateLimitIP = b.RateLimitIP,
                                           !.RateLimitUser = b.RateLimitUser,
                                           !.RateLimitWindow = b.RateLimitWindow,
                                           !.UpdatedAt = t]
        out == StorageUpdateTenantConfig(ts, cfg)
    IN  IF tenantID = "" THEN deny(400, "Tenant ID is required")
        ELSE IF GetTenant(ts, tenantID).err # "" THEN deny(404, "Tenant not found")
        ELSE IF ~b.parsed THEN deny(400, "Invalid request body")
        ELSE IF ~ValidateConfig(b) THEN deny(400, "validation failed")
        ELSE IF out.err # "" THEN deny(500, "Failed to update tenant configuration")
        ELSE [tenants |-> out.tenants,
              resp |-> Response("tenant-config", 2, "UpdateTenantConfig", 200, "",
                           [NoBody EXCEPT !.tenant = cfg.TenantID,
                                          !.config = cfg.JWTDuration])]

\* A request on PUT /tenants/:tenant_id/config: Authenticate, then
\* UpdateTenantConfig.
UpdateTenantConfig(tok, tenantID, b) ==
    /\ LET r == ParseWithClaims(tok, JWTSecret, now)
           out == UpdateTenantConfigResult(tenants, tenantID, b, now)
       IN  IF r.err # "" \/ ~r.ok
           THEN resp' = AuthenticateResponse(r) /\ UNCHANGED tenants
           ELSE resp' = out.resp /\ tenants' = out.tenants
    /\ UNCHANGED <<limiterVars, jwtDuration, gen, issued, val, ticks, users, login,
                   logins, roleCheck, created>>

\* c.Locals(key) of a request that passed Authenticate, which stored the
\* claims under "user" and nothing else: [set, value].
ContextLocal(claims, key) ==
    IF key = "user" THEN [set |-> TRUE, value |-> claims]
    ELSE [set |-> FALSE, value |-> NoClaims]

\* The panic of the unchecked type assertion c.Locals("tenant_id").(string) on
\* a nil interface; no recover handler is installed, so the process ends.
NilNotString == "panic: interface conversion: interface {} is nil, not string"

\* AuthHandler.ListUsers behind Authenticate: the parameter, the tenant lookup,
\* then the tenant id of the context, read from the local "tenant_id", decides
\* (200: the query on the users of the tenant follows).
ListUsersResponse(claims, tenantID, ts) ==
    LET out(status, e) == Response("tenant-users", 2, "ListUsers", status, e, NoBody)
        userTenantID == ContextLocal(claims, "tenant_id")
    IN  IF tenantID = "" THEN out(400, "Tenant ID is required")
        ELSE IF GetTenant(ts, tenantID).err # "" THEN out(404, "Tenant not found")
        ELSE IF ~userTenantID.set THEN out(0, NilNotString)
        ELSE IF userTenantID.value = "" THEN out(401, "User tenant ID not found")
        ELSE IF userTenantID.value # tenantID
        THEN out(403, "Access denied to this tenant")
        ELSE out(200, "")

\* A request on GET /tenants/:tenant_id/users: Authenticate, then ListUsers.
ListUsers(tok, tenantID) ==
    /\ LET r == ParseWithClaims(tok, JWTSecret, now)
       IN  resp' = IF r.err # "" \/ ~r.ok THEN AuthenticateResponse(r)
                   ELSE ListUsersResponse(r.claims, tenantID, tenants)
    /\ UNCHANGED <<limiterVars, jwtDuration, gen, issued, val, ticks, storeVars, login,
                   logins, roleCheck, tenantVars>>

\* The process has ended in a panic.
Crashed ==
    resp.error = NilNotString

InitTokens ==
    /\ created = <<>>
    /\ gen = [pc |-> "idle", user |-> NoUser, exp |-> 0, iat |-> 0]
    /\ issued = NoIssued
    /\ val = NoVal
    /\ ticks = 0
    /\ login = NoLogin
    /\ resp = NoResp
    /\ logins = 0
    /\ roleCheck = NoRoleCheck

\* storage.NewInMemoryStorage(): no tenant, no user.
InitEmptyStorage ==
    /\ users = <<>>
    /\ tenants = <<>>

InitWorkers ==
    /\ pc = [w \in Workers |-> "idle"]
    /\ req = [w \in Workers |-> NoReq]
    /\ phase = [w \in Workers |-> "ip"]
    /\ tmp = [w \in Workers |-> 0]
    /\ ops = [w \in Workers |-> <<>>]
    /\ res = [w \in Workers |-> [outcome |-> "none", failed |-> FALSE]]

InitLimiter ==
    /\ now = 0
    /\ enabled \in BOOLEAN
    /\ limit \in 1..MaxLimit
    /\ window \in 1..MaxWindow
    /\ mstore = <<>>
    /\ mu = [writer |-> NoWorker]
    /\ rstore = <<>>
    /\ hist = [k \in Keys |-> [t0 |-> 0, n |-> 0, rets |-> {}]]
    /\ InitWorkers
    /\ InitTokens
    /\ InitEmptyStorage
    /\ jwtDuration = Day

\* The limiter as cmd/main.go builds it: NewRateLimiter(NewMemoryStore(), ...).
Init ==
    /\ backend = "memory"
    /\ InitLimiter

Next ==
    \/ \E w \in Workers, ip \in IPs, u \in UserIDs, e \in BOOLEAN : Start(w, ip, u, e)
    \/ \E w \in Workers : MemGet(w)
    \/ \E w \in Workers : MemLoad(w)
    \/ \E w \in Workers : MemStore(w)
    \/ Tick

Spec ==
    Init /\ [][Next]_vars

\* The limiter built on the remote store: NewRateLimiter(NewRedisStore(c), ...).
InitRedis ==
    /\ backend = "redis"
    /\ InitLimiter

\* The user ids of the requests a worker serves on the remote store: w1 serves
\* requests that carry Claims in the context, w2 anonymous ones.
RedisUsers(w) ==
    IF w = "w1" THEN UserIDs \ {""} ELSE {""}

NextRedis ==
    \/ \E w \in Workers : \E ip \in IPs, u \in RedisUsers(w) : Start(w, ip, u, TRUE)
    \/ \E w \in Workers : RedisGet(w)
    \/ \E w \in Workers : RedisPipeIncr(w)
    \/ \E w \in Workers : RedisPipeExpire(w)
    \/ RedisTick

SpecRedis ==
    InitRedis /\ [][NextRedis]_vars

\* The limiter on either store: what holds of both implementations of
\* RateLimitStore.
InitStores ==
    /\ backend \in {"memory", "redis"}
    /\ InitLimiter

NextStores ==
    \/ backend = "memory" /\ Next
    \/ backend = "redis" /\ NextRedis

SpecStores ==
    InitStores /\ [][NextStores]_vars

\* The token service: NewAuthHandler(store, cfg.JWT.Secret, cfg.JWT.AccessExpiration)
\* and NewAuthMiddleware(cfg.JWT.Secret), with JWT_EXPIRATION_MINUTES positive.
InitToken ==
    /\ backend = "memory"
    /\ now = 0
    /\ enabled = TRUE
    /\ limit = 1
    /\ window = 1
    /\ mstore = <<>>
    /\ mu = [writer |-> NoWorker]
    /\ rstore = <<>>
    /\ hist = [k \in Keys |-> [t0 |-> 0, n |-> 0, rets |-> {}]]
    /\ InitWorkers
    /\ InitTokens
    /\ InitEmptyStorage
    /\ jwtDuration \in {AccessExpiration(n) : n \in 1..MaxExpiration}

NextToken ==
    \/ \E u \in Users : GenExp(u)
    \/ GenIat
    \/ GenSign
    \/ \E t \in Presented : Authenticate(t)
    \/ \E d \in TickSteps : TokTick(d)

SpecToken ==
    InitToken /\ [][NextToken]_vars

\* The role middleware on top of the token service: tokens are issued and
\* presented to Authenticate, and RequireRole runs with every set of roles.
InitRole ==
    /\ InitToken
    /\ jwtDuration = AccessExpiration(1)

NextRole ==
    \/ \E u \in Users : GenExp(u)
    \/ GenIat
    \/ GenSign
    \/ \E t \in Presented : Authenticate(t)
    \/ \E b \in BOOLEAN, roles \in SUBSET Roles : RequireRole(b, roles)

SpecRole ==
    InitRole /\ [][NextRole]_vars

\* The Authenticate middleware with the requests clients send it: tokens are
\* issued, time passes, and any header arrives.
NextHeader ==
    \/ \E u \in Users : GenExp(u)
    \/ GenIat
    \/ GenSign
    \/ \E h \in AuthHeaders : AuthenticateHeader(h)
    \/ \E d \in TickSteps : TokTick(d)

SpecHeader ==
    InitRole /\ [][NextHeader]_vars

\* generateToken(u) called at time t with no time passing between its reads of
\* the clock.
IssuedAt(u, t) ==
    [has |-> TRUE,
     tok |-> SignedString("HS256",
                 GenClaims(u, NewNumericDate(t + AccessExpiration(1)),
                           NewNumericDate(t), NewNumericDate(t)),
                 JWTSecret),
     user |-> u, at |-> t]

\* The tenant routes: a storage that holds the tenants table, and a user of
\* one of the tenants who holds a token issued at time 0.
InitTenant ==
    /\ backend = "memory"
    /\ now = 0
    /\ enabled = TRUE
    /\ limit = 1
    /\ window = Minute
    /\ mstore = <<>>
    /\ mu = [writer |-> NoWorker]
    /\ rstore = <<>>
    /\ hist = [k \in Keys |-> [t0 |-> 0, n |-> 0, rets |-> {}]]
    /\ InitWorkers
    /\ created = <<>>
    /\ gen = [pc |-> "idle", user |-> NoUser, exp |-> 0, iat |-> 0]
    /\ issued \in {IssuedAt(u, 0) : u \in Users}
    /\ val = NoVal
    /\ ticks = 0
    /\ login = NoLogin
    /\ resp = NoResp
    /\ logins = 0
    /\ roleCheck = NoRoleCheck
    /\ users = <<>>
    /\ tenants = TenantTable
    /\ jwtDuration = AccessExpiration(1)

\* Days pass between the requests on the tenant routes.
TenantTick ==
    TokTick(Day)

\* The tenant routes of the router, served until the process ends.
NextTenant ==
    \/ \E b \in CreateBodies : ~Crashed /\ CreateTenant(b)
    \/ \E t \in Presented, id \in TenantParams, b \in UpdateBodies :
           ~Crashed /\ UpdateTenantConfig(t, id, b)
    \/ \E t \in Presented, id \in TenantParams : ~Crashed /\ ListUsers(t, id)
    \/ ~Crashed /\ TenantTick

SpecTenant ==
    InitTenant /\ [][NextTenant]_vars

\* The whole service as cmd/main.go and the router wire it: the login route
\* behind the rate limiter on the in-process store, the validate-token route
\* and the protected routes, on a storage that holds tenants and users.
InitAuth ==
    /\ backend = "memory"
    /\ now = 0
    /\ enabled = TRUE
    /\ limit = 1
    /\ window = Minute
    /\ mstore = <<>>
    /\ mu = [writer |-> NoWorker]
    /\ rstore = <<>>
    /\ hist = [k \in Keys |-> [t0 |-> 0, n |-> 0, rets |-> {}]]
    /\ InitWorkers
    /\ InitTokens
    /\ users \in UserTables
    /\ tenants = TenantTable
    /\ jwtDuration = AccessExpiration(1)

\* A login request reaches the rate limiter: the route has no Authenticate before
\* it, so the request carries no Claims; one worker serves the route.
LoginRequest(w, ip) ==
    /\ w = "w1"
    /\ res[w].outcome # "next"
    /\ login.pc = "idle"
    /\ logins < MaxLogins
    /\ Start(w, ip, "", TRUE)

\* A login request that arrives while the IP key's count is at the limit.
LoginOverLimit(w, ip) ==
    /\ w = "w1"
    /\ res[w].outcome # "next"
    /\ login.pc = "idle"
    /\ MemGetCount(mstore, ipKey(ip), now) >= limit
    /\ Start(w, ip, "", TRUE)

\* The service is between two requests: this specification serves them one at
\* a time (concurrent requests are the subject of Spec and SpecRedis).
Serial ==
    /\ \A w \in Workers : pc[w] = "idle" /\ res[w].outcome # "next"
    /\ login.pc = "idle"
    /\ gen.pc = "idle"

\* The clock of this specification: fractions of a second pass inside
\* generateToken, days between two requests.
AuthTick(d) ==
    /\ IF gen.pc # "idle" THEN d < Second ELSE Serial /\ d = Day
    /\ TokTick(d)

NextAuth ==
    \/ \E w \in Workers, ip \in IPs : LoginRequest(w, ip)
    \/ \E w \in Workers : MemGet(w)
    \/ \E w \in Workers : MemLoad(w)
    \/ \E w \in Workers : MemStore(w)
    \/ \E w \in Workers, i \in LoginInputs : Login(w, i[1], i[2], i[3])
    \/ GenIat
    \/ GenSign
    \/ \E f \in BOOLEAN : LoginFinish(f)
    \/ \E t \in Presented : Serial /\ ValidateToken(t)
    \/ \E t \in Presented : Serial /\ Authenticate(t)
    \/ Serial /\ issued.has /\ DeleteUser(issued.user.ID)
    \/ Serial /\ issued.has /\ DeleteTenant(issued.user.TenantID)
    \/ \E d \in TickSteps : AuthTick(d)

SpecAuth ==
    InitAuth /\ [][NextAuth]_vars

\* The same service with its scheduling: a handler that can take its next step
\* takes it, and requests keep arriving while the service accepts them.
SpecAuthFair ==
    SpecAuth /\ WF_vars(NextAuth)

\* The login route alone, with requests that keep arriving from an address whose
\* budget is spent.
NextLogin ==
    \/ \E w \in Workers, ip \in IPs : LoginRequest(w, ip)
    \/ \E w \in Workers, ip \in IPs : LoginOverLimit(w, ip)
    \/ \E w \in Workers : MemGet(w)
    \/ \E w \in Workers : MemLoad(w)
    \/ \E w \in Workers : MemStore(w)
    \/ \E w \in Workers, i \in LoginInputs : Login(w, i[1], i[2], i[3])
    \/ GenIat
    \/ GenSign
    \/ \E f \in BOOLEAN : LoginFinish(f)
    \/ \E d \in TickSteps : AuthTick(d)

SpecLogin ==
    InitAuth /\ [][NextLogin]_vars

\* ------------------------------------------------------------- properties

\* The count a GetCount call would return now, by backend.
CountNow(key) ==
    IF backend = "memory"
    THEN MemGetCount(mstore, key, now)
    ELSE RedisGetCount(rstore, key, now)

\* The window that the key's first admitted request opened is still running.
InWindow(key) ==
    hist[key].n > 0 /\ ~After(now, hist[key].t0 + window)

\* No Increment on the key is half done: on the remote store every pipeline that
\* ran its INCR on the key also ran its EXPIRE.
Settled(key) ==
    /\ \A w \in Workers : pc[w] \in {"inc_store", "pipe_expire"} => KeyOf(w) # key
    /\ key \in DOMAIN rstore => rstore[key].ttl # NoTTL

\* The requests that have left the handler.
Served ==
    {w \in Workers : pc[w] = "idle" /\ res[w].outcome # "none"}

\* The store calls of a request that passes both checks.
FullOps(r) ==
    <<<<"GetCount", ipKey(r.ip)>>, <<"Increment", ipKey(r.ip)>>>> \o
    (IF r.user = "" THEN <<>>
     ELSE <<<<"GetCount", userKey(r.user)>>, <<"Increment", userKey(r.user)>>>>)

IsPrefix(s, t) ==
    Len(s) <= Len(t) /\ \A i \in 1..Len(s) : s[i] = t[i]

\* C1: after exactly limit Increment calls on a key inside one window,
\* GetCount of the key returns limit and an admission check made then is denied.
C1_LimitReachedDenied ==
    \A k \in Keys :
        (InWindow(k) /\ hist[k].n = limit) =>
            /\ MemGetCount(mstore, k, now) = limit
            /\ CheckDecision(MemGetCount(mstore, k, now), limit) = "denied"

\* A request was denied at the IP key at time 0, in the only window there has
\* been, after exactly limit increments of the key.
C1_Witness ==
    \E w \in Served :
        /\ now = 0
        /\ res[w].outcome = "429_ip"
        /\ hist[ipKey(req[w].ip)].n = limit

\* C2 (as claimed, for either backend): once limit requests of an IP were
\* admitted inside the window its first admitted request opened, a check of that
\* IP inside the window is denied, and a check made after the window is allowed.
C2_WindowPolicy ==
    \A i \in IPs :
        LET k == ipKey(i)
        IN  Settled(k) =>
            /\ (hist[k].n >= limit /\ now < hist[k].t0 + window) =>
                   CheckDecision(CountNow(k), limit) = "denied"
            /\ (hist[k].n > 0 /\ now > hist[k].t0 + window) =>
                   CheckDecision(CountNow(k), limit) = "increment"

\* C3: once the window has passed since a key's expiry was set (and it was not
\* incremented again), GetCount returns 0, removed from the map or not.
C3_ExpiredCountsZero ==
    \A k \in Keys :
        (hist[k].n > 0 /\ After(now, hist[k].t0 + window)) =>
            MemGetCount(mstore, k, now) = 0

\* An expired entry with a positive count is still in the map.
C3_Witness ==
    \E k \in DOMAIN mstore :
        /\ hist[k].n > 0
        /\ After(now, hist[k].t0 + window)
        /\ mstore[k].Count > 0

\* C4: the step of a check that reads a count >= limit denies the request and
\* leaves the store as it was, with no Increment call; a check that reads a count
\* below the limit calls Increment once, which raises the key's counter by one
\* and changes neither its expiry nor another key.
C4_DeniedCheckNoIncrement ==
    [][\A w \in Workers :
        /\ (pc[w] = "get" /\ pc'[w] # "get") =>
              /\ mstore' = mstore
              /\ IF MemGetCount(mstore, KeyOf(w), now) >= limit
                 THEN /\ pc'[w] = "idle"
                      /\ res'[w].outcome = (IF phase[w] = "ip" THEN "429_ip" ELSE "429_user")
                      /\ ops'[w][Len(ops'[w])] = <<"GetCount", KeyOf(w)>>
                 ELSE pc'[w] = "inc"
        /\ (pc[w] = "inc_store" /\ pc'[w] # "inc_store") =>
              /\ DOMAIN mstore' = DOMAIN mstore
              /\ mstore'[KeyOf(w)].Count = mstore[KeyOf(w)].Count + 1
              /\ mstore'[KeyOf(w)].ExpiresAt = mstore[KeyOf(w)].ExpiresAt
              /\ \A k \in DOMAIN mstore \ {KeyOf(w)} : mstore'[k] = mstore[k]
              /\ Len(SelectSeq(ops[w], LAMBDA o : o = <<"Increment", KeyOf(w)>>)) = 1
       ]_vars

\* A request was denied by its first GetCount while the key stood at the limit.
C4_Witness ==
    \E w \in Served :
        /\ res[w].outcome = "429_ip"
        /\ ops[w] = <<<<"GetCount", ipKey(req[w].ip)>>>>
        /\ ipKey(req[w].ip) \in DOMAIN mstore
        /\ mstore[ipKey(req[w].ip)].Count = limit

\* C5: a request to which the store returned an error, from GetCount or from
\* Increment, ends in 429: the downstream handler is not invoked.
C5_FailClosed ==
    \A w \in Workers :
        res[w].failed => (pc[w] = "idle" /\ res[w].outcome \in {"429_ip", "429_user"})

\* Increment on the user key returned an error and the request ended in 429.
C5_Witness ==
    \E w \in Served :
        /\ res[w].failed
        /\ Len(ops[w]) = 4
        /\ res[w].outcome = "429_user"

\* C6: with the limiter or the route's policy disabled, a request is passed on
\* and makes no store call, whatever the counters are.
C6_DisabledAllows ==
    \A w \in Workers :
        (~enabled \/ ~req[w].cfgEnabled) =>
            (pc[w] = "idle" /\ ops[w] = <<>> /\ res[w].outcome \in {"none", "next"})

\* A request of a disabled route was passed on while its IP was at the limit.
C6_Witness ==
    \E w \in Served :
        /\ ~req[w].cfgEnabled
        /\ enabled
        /\ res[w].outcome = "next"
        /\ MemGetCount(mstore, ipKey(req[w].ip), now) >= limit

\* C7: the IP key is checked before the user key; a request denied at the IP key
\* made no call on the user key; a request is passed on only after both checks.
C7_IPBeforeUser ==
    \A w \in Workers :
        /\ IsPrefix(ops[w], FullOps(req[w]))
        /\ (w \in Served /\ res[w].outcome = "429_ip") =>
              \A i \in 1..Len(ops[w]) : ops[w][i][2] = ipKey(req[w].ip)
        /\ (w \in Served /\ res[w].outcome = "429_user") =>
              (req[w].user # "" /\ Len(ops[w]) >= 3)
        /\ (w \in Served /\ res[w].outcome = "next" /\ enabled /\ req[w].cfgEnabled) =>
              ops[w] = FullOps(req[w])

\* A request with a user id was denied at the IP key.
C7_Witness ==
    \E w \in Served :
        /\ req[w].user # ""
        /\ res[w].outcome = "429_ip"
        /\ \E v \in Served : req[v].user # "" /\ res[v].outcome = "next"

\* C8: the Increment calls made on a key inside one window, however they
\* interleave, leave its count at their number N and returned 1..N.
C8_NoLostUpdate ==
    \A k \in DOMAIN mstore :
        /\ mstore[k].Count = hist[k].n
        /\ hist[k].rets = 1..hist[k].n

\* Two requests passed the check of one key together and both were counted.
C8_Witness ==
    \E k \in DOMAIN mstore :
        /\ hist[k].n > limit
        /\ mstore[k].Count = hist[k].n

\* C9 (as claimed): no key of the remote store holds a counter without an expiry.
C9_CounterHasExpiry ==
    \A k \in DOMAIN rstore : rstore[k].ttl # NoTTL

\* C10: a token that generateToken returned for a user, validated at once (less
\* than a second later) with the same secret, is accepted and yields the
\* user's id, tenant id and role.
C10_IssueValidateRoundTrip ==
    (/\ val.has
     /\ issued.has
     /\ val.tok = issued.tok
     /\ val.at >= issued.at
     /\ val.at - issued.at < Second) =>
        /\ val.ok
        /\ val.claims.UserID = issued.user.ID
        /\ val.claims.TenantID = issued.user.TenantID
        /\ val.claims.Role = issued.user.Role

\* Authenticate accepted a token at the instant generateToken returned it, the
\* clock having advanced inside generateToken.
C10_Witness ==
    /\ val.has
    /\ val.ok
    /\ val.entry = "Authenticate"
    /\ val.tok = issued.tok
    /\ val.at = issued.at
    /\ issued.user.ID = "u2"
    /\ issued.user.TenantID = "t2"
    /\ issued.at % Second # 0

DurationUnits == {Second, Minute, Hour, Day}

\* C12 (as claimed): the token of every successful login has issued_at =
\* not_before and expires_at - issued_at = the jwt_duration of the tenant logged
\* in to, in whatever unit that number is read.
C12_TokenTimes ==
    (resp.entry = "Login" /\ resp.status = 200) =>
        LET c == UnmarshalClaims(resp.body.token.payload)
        IN  /\ c.IssuedAt = c.NotBefore
            /\ \E u \in DurationUnits : c.ExpiresAt - c.IssuedAt = login.expiresIn * u

\* C13 (as claimed): Authenticate and ValidateToken accept no token whose header
\* names another algorithm than HS256, the one generateToken signs with.
C13_OnlyConfiguredAlgorithm ==
    (val.has /\ val.ok) => val.tok.alg = "HS256"

\* The error jwt.ParseWithClaims returned to the validation made last.
ParseErr ==
    ParseWithClaims(val.tok, JWTSecret, val.at).err

\* C14: whatever makes the parser reject a token (malformed, unverifiable,
\* bad signature, expired, not yet valid), Authenticate and ValidateToken answer
\* with the same status and message, 401 "Invalid token", and no body.
C14_TokenFailuresSame ==
    (val.has /\ resp.entry = val.entry /\ ParseErr # "") =>
        /\ resp.status = 401
        /\ resp.error = "Invalid token"
        /\ resp.body = NoBody

\* ValidateToken answered a token with a forged signature, whose claims name a
\* stored user and tenant, like any other rejected token.
C14_Witness ==
    /\ val.has
    /\ val.entry = "ValidateToken"
    /\ resp.entry = "ValidateToken"
    /\ ParseErr = "signature"
    /\ resp.error = "Invalid token"
    /\ UnmarshalClaims(val.tok.payload).TenantID \in DOMAIN tenants

\* C15 (as claimed): a login rejected for an unknown username, for a wrong
\* password or for a user of another tenant than the one requested gets the
\* response a wrong password gets: same status, same message.
C15_LoginFailuresSame ==
    (resp.entry = "Login" /\
     login.cause \in {"user not found", "invalid credentials", "tenant mismatch"}) =>
        /\ resp.status = 401
        /\ resp.error = LoginError("invalid credentials")

\* C16: a token is issued, and a last_login is written, only for the user that
\* the username of a login resolved to, whose password verified and whose
\* tenant_id is the tenant of the request path.
C16_CrossTenantIsolation ==
    [][/\ (issued'.has /\ issued' # issued) =>
              /\ login.pc = "token"
              /\ issued'.user.ID = login.user
              /\ issued'.user.Username = login.username
              /\ issued'.user.TenantID = login.tenant
              /\ CompareHashAndPassword(issued'.user.Password, login.password)
       /\ \A i \in DOMAIN users \cap DOMAIN users' :
              users'[i].LastLogin # users[i].LastLogin =>
                  /\ login.pc = "token"
                  /\ login.user = i
                  /\ users[i].TenantID = login.tenant
                  /\ users'[i].LastLogin = now
      ]_vars

\* With one username in two tenants: a login to t1 with the password of the
\* user of t2 resolved to that user and was rejected at the tenant check; no
\* token was issued and no last_login written.
C16_Witness ==
    /\ login.cause = "tenant mismatch"
    /\ login.tenant = "t1"
    /\ login.password = "p2"
    /\ Cardinality(GetUserByUsername(users, login.username)) = 2
    /\ resp.entry = "Login"
    /\ resp.status = 401
    /\ ~issued.has
    /\ \A i \in DOMAIN users : users[i].LastLogin = NeverLoggedIn

\* C17: a login that passed the tenant lookup, the credentials and the tenant
\* check answers 200 with the issued token, UpdateUserLastLogin failing or not.
C17_LastLoginBestEffort ==
    (resp.entry = "Login" /\ login.pc = "idle" /\ login.cause = "") =>
        /\ resp.status = 200
        /\ issued.has
        /\ resp.body.token = issued.tok
        /\ resp.body.id = login.user

\* UpdateUserLastLogin failed, last_login was not written, and the login
\* answered 200 with the token.
C17_Witness ==
    /\ resp.entry = "Login"
    /\ resp.status = 200
    /\ login.updateFailed
    /\ resp.body.token = issued.tok
    /\ login.user \in DOMAIN users
    /\ users[login.user].LastLogin = NeverLoggedIn

\* C18: ValidateToken on the token that login issued to U, unexpired, with U
\* and U's tenant still stored, answers valid = true with U's id, username and
\* role, the tenant's config and the token's expiry.
C18_LivePrincipalValidates ==
    [][LET r == ParseWithClaims(issued.tok, JWTSecret, now)
           U == issued.user
       IN  (/\ val' # val
            /\ val'.entry = "ValidateToken"
            /\ issued.has
            /\ val'.tok = issued.tok
            /\ r.err = ""
            /\ U.ID \in DOMAIN users
            /\ users[U.ID].Username = U.Username
            /\ U.TenantID \in DOMAIN tenants) =>
               /\ resp'.status = 200
               /\ resp'.body.valid
               /\ resp'.body.id = U.ID
               /\ resp'.body.username = U.Username
               /\ resp'.body.role = U.Role
               /\ resp'.body.tenant = U.TenantID
               /\ resp'.body.config = tenants[U.TenantID].Config.JWTDuration
               /\ resp'.body.expiresAt = r.claims.ExpiresAt
      ]_vars

\* C19: ValidateToken answers valid = true only if, at that moment, a user with
\* id = claims.user_id and a tenant with id = claims.tenant_id are stored.
C19_AbsentPrincipalRejected ==
    [][(/\ val' # val
        /\ val'.entry = "ValidateToken"
        /\ resp'.body.valid) =>
           /\ val'.claims.UserID \in DOMAIN users
           /\ val'.claims.TenantID \in DOMAIN tenants
      ]_vars

\* The position of handler h in a chain of handlers, 0 if it did not run.
ChainIndex(chain, h) ==
    IF \E i \in DOMAIN chain : chain[i] = h
    THEN CHOOSE i \in DOMAIN chain : chain[i] = h
    ELSE 0

\* C20: a request that reached a protected handler passed the rate-limit check
\* first and a successful token validation after it.
C20_PipelineOrder ==
    ChainIndex(resp.chain, "Handler") > 0 =>
        /\ ChainIndex(resp.chain, "RateLimit") > 0
        /\ ChainIndex(resp.chain, "RateLimit") < ChainIndex(resp.chain, "Authenticate")
        /\ ChainIndex(resp.chain, "Authenticate") < ChainIndex(resp.chain, "Handler")

\* C21: RequireRole(roles...) passes a request on iff Claims are in its context
\* and their role is one of roles; without Claims it answers 401, with Claims of
\* another role (or with no roles) 403, and the two answers differ.
C21_RequireRole ==
    roleCheck.has =>
        LET c == roleCheck.ctx
        IN  /\ roleCheck.to = "next" <=> (c.present /\ c.claims.Role \in roleCheck.roles)
            /\ ~c.present =>
                   (roleCheck.to = "401" /\ roleCheck.error = "User not found in context")
            /\ (c.present /\ c.claims.Role \notin roleCheck.roles) =>
                   (roleCheck.to = "403" /\ roleCheck.error = "Insufficient permissions")

\* RequireRole() with no roles answered 403 to the accepted claims of an admin.
C21_Witness ==
    /\ roleCheck.has
    /\ roleCheck.ctx.present
    /\ roleCheck.ctx.claims.Role = "admin"
    /\ roleCheck.roles = {}
    /\ roleCheck.to = "403"

\* C22 (as claimed): the expires_in of a successful login, in seconds, is the
\* lifetime expires_at - issued_at of the token in the same response (to the
\* second that the clock reads of generateToken may lie apart).
C22_ExpiresInIsLifetime ==
    (resp.entry = "Login" /\ resp.status = 200) =>
        LET c == UnmarshalClaims(resp.body.token.payload)
            lifetime == c.ExpiresAt - c.IssuedAt
        IN  /\ lifetime - Second <= resp.body.expiresIn * Second
            /\ resp.body.expiresIn * Second <= lifetime + Second

\* The store calls a request has made on a key, in order.
OpsOn(w, key) ==
    SelectSeq(ops[w], LAMBDA o : o[2] = key)

\* C23 (as claimed): during one admission check a request makes at most one
\* store call (one round trip with the remote store) on each key.
C23_OneOpPerKey ==
    \A w \in Workers : \A k \in Keys : Len(OpsOn(w, k)) <= 1

\* C23 (amended): on each key a request makes at most two store calls, one
\* GetCount and after it at most one Increment, on its IP key and on the key of
\* its user id only; no call is made twice.
C23_TwoOpsPerKey ==
    \A w \in Workers : \A k \in Keys :
        /\ OpsOn(w, k) \in {<<>>, <<<<"GetCount", k>>>>,
                            <<<<"GetCount", k>>, <<"Increment", k>>>>}
        /\ OpsOn(w, k) # <<>> => k \in {ipKey(req[w].ip), userKey(req[w].user)}

\* A request with a user id was passed on after a GetCount and an Increment
\* round trip on each of its two keys.
C23_Witness ==
    \E w \in Served :
        /\ res[w].outcome = "next"
        /\ req[w].user # ""
        /\ Len(OpsOn(w, ipKey(req[w].ip))) = 2
        /\ Len(OpsOn(w, userKey(req[w].user))) = 2

\* C24: a GetCount call, on a live, an expired or an absent key, changes no
\* entry's count or expiry and not the set of keys, in either store.
C24_GetCountReadOnly ==
    [][\A w \in Workers :
          (pc[w] = "get" /\ pc'[w] # "get") =>
              /\ ops'[w][Len(ops'[w])] = <<"GetCount", KeyOf(w)>>
              /\ DOMAIN mstore' = DOMAIN mstore
              /\ \A k \in DOMAIN mstore : mstore'[k] = mstore[k]
              /\ DOMAIN rstore' = DOMAIN rstore
              /\ \A k \in DOMAIN rstore : rstore'[k] = rstore[k]
      ]_vars

\* GetCount has just returned 0 for an expired key, and the key's entry is in
\* the map as it was, with its count.
C24_Witness ==
    \E w \in Workers :
        /\ backend = "memory"
        /\ pc[w] = "inc"
        /\ ops[w][Len(ops[w])] = <<"GetCount", KeyOf(w)>>
        /\ KeyOf(w) \in DOMAIN mstore
        /\ After(now, mstore[KeyOf(w)].ExpiresAt)
        /\ mstore[KeyOf(w)].Count > 0

ExpirationMinutes ==
    jwtDuration \div AccessExpiration(1)

\* C26 (as claimed): with JWT_EXPIRATION_MINUTES = N a token issued at time t
\* has expires_at = t + N minutes (in whole seconds, the three clock reads of
\* generateToken at most a second apart) and is rejected at every later time.
C26_LifetimeInMinutes ==
    /\ issued.has =>
           LET c == UnmarshalClaims(issued.tok.payload)
               e == issued.at + ExpirationMinutes * Minute
           IN  e - 2 * Second <= c.ExpiresAt /\ c.ExpiresAt <= e
    /\ (val.has /\ issued.has /\ val.tok = issued.tok
            /\ val.at > issued.at + ExpirationMinutes * Minute) => ~val.ok

\* C27 (as claimed): a login to a tenant id that is not stored is answered with
\* a not-found status, whatever the credentials are, and not with the response
\* of a failed check of the credentials.
C27_UnknownTenantNotFound ==
    (resp.entry = "Login" /\ login.cause = "tenant not found") =>
        /\ resp.status = 404
        /\ \A c \in {"user not found", "invalid credentials", "tenant mismatch"} :
               resp.error # LoginError(c)

\* C28 (as claimed, for both stores): an Increment sets the key's expiry to
\* now + window only when it creates the key or finds it expired; an Increment
\* of a live key adds one to its count and leaves its expiry as it was.
C28_FixedWindow ==
    [][\A w \in Workers :
          LET k == KeyOf(w)
          IN  /\ (pc[w] = "inc" /\ pc'[w] = "inc_store") =>
                     mstore'[k].ExpiresAt =
                         IF k \in DOMAIN mstore /\ ~After(now, mstore[k].ExpiresAt)
                         THEN mstore[k].ExpiresAt
                         ELSE now + window
              /\ (pc[w] = "inc_store" /\ pc'[w] # "inc_store") =>
                     /\ mstore'[k].Count = mstore[k].Count + 1
                     /\ mstore'[k].ExpiresAt = mstore[k].ExpiresAt
              /\ (pc[w] = "inc" /\ pc'[w] = "pipe_expire") =>
                     rstore'[k].val = (IF RedisLive(rstore, k, now) THEN rstore[k].val ELSE 0) + 1
              /\ (pc[w] = "pipe_expire" /\ pc'[w] # "pipe_expire" /\ ~res'[w].failed) =>
                     rstore'[k].ttl =
                         IF rstore[k].ttl # NoTTL THEN rstore[k].ttl ELSE now + window
      ]_vars

\* The step is the Lock-and-purge part of an Increment call of worker w.
IncrementBegins(w) ==
    pc[w] = "inc" /\ pc'[w] = "inc_store"

\* C29 (as claimed): no entry is in the map later than one window after its
\* expiry, whether Increment is called again or not, and every Increment call
\* removes all expired entries before it touches its own key.
C29_BoundedStaleness ==
    [][/\ \A k \in DOMAIN mstore' : ~After(now', mstore'[k].ExpiresAt + window)
       /\ \A w \in Workers : IncrementBegins(w) =>
              \A k \in DOMAIN mstore :
                  After(now, mstore[k].ExpiresAt) =>
                      (k \notin DOMAIN mstore' \/ mstore'[k].ExpiresAt = now + window)
      ]_vars

\* C29 (amended): every Increment call removes all expired entries before it
\* touches its own key (which it creates anew if it was among them), and an
\* entry leaves the map in no other way: it stays until the next Increment call
\* made after its expiry, on whatever key.
C29_ReapedByIncrement ==
    [][/\ \A w \in Workers : IncrementBegins(w) =>
              \A k \in DOMAIN mstore :
                  IF After(now, mstore[k].ExpiresAt)
                  THEN IF k = KeyOf(w)
                       THEN mstore'[k] = NewEntry(now, window)
                       ELSE k \notin DOMAIN mstore'
                  ELSE k \in DOMAIN mstore' /\ mstore'[k] = mstore[k]
       /\ (\A w \in Workers : ~IncrementBegins(w)) => DOMAIN mstore' = DOMAIN mstore
      ]_vars

\* The entry of a user key stayed in the map for more than a window after its
\* expiry and was then removed by an Increment call on the IP key.
C29_Witness ==
    \E w \in Workers : \E k \in Keys :
        /\ pc[w] = "inc_store"
        /\ k # KeyOf(w)
        /\ hist[k].n > 0
        /\ After(now, hist[k].t0 + window + window)
        /\ k \notin DOMAIN mstore

\* C30 (as claimed): no more than limit requests are admitted on a key inside
\* one fixed window, the window its first Increment opened. (An interval as
\* long as the window meets at most two fixed windows of the key, so the bound
\* of 2 x limit for every such interval holds whenever this one does.)
C30_BurstBound ==
    \A k \in Keys : hist[k].n <= limit

\* C33 (as claimed): however the admission checks of concurrent requests on a key
\* interleave, no more than limit of them are admitted inside one window, the
\* stored count of the key is never above limit, and an Increment call starts
\* only while the count is below limit, as its GetCount read it.
C33_AtomicCheckAndIncrement ==
    [][/\ \A k \in Keys : hist'[k].n <= limit
       /\ \A k \in DOMAIN mstore' : mstore'[k].Count <= limit
       /\ \A w \in Workers : IncrementBegins(w) =>
              MemGetCount(mstore, KeyOf(w), now) < limit
      ]_vars

\* The responses of a request the limiter denied.
Denials == {"429_ip", "429_user"}

\* C34 (as claimed): a request that ends denied has raised no counter: it made
\* no Increment call that returned a count (so a request denied at user scope
\* left the IP key alone), and the Increment call whose error denies a request
\* has not run its INCR.
C34_DeniedLeavesCounters ==
    [][\A w \in Workers :
          (pc[w] # "idle" /\ pc'[w] = "idle" /\ res'[w].outcome \in Denials) =>
              /\ \A i \in 1..Len(ops[w]) : ops[w][i][1] # "Increment"
              /\ pc[w] # "pipe_expire"
      ]_vars

\* The store calls of a request the limiter admitted on the IP key alone.
AdmittedOps(ip) ==
    <<(<<"GetCount", ipKey(ip)>>), (<<"Increment", ipKey(ip)>>)>>

\* C38: on the login route the limiter runs first. A step of the Login handler
\* (tenant and user lookup, password check, token generation, last_login update)
\* is taken only for a request the limiter admitted, so a request it denied runs
\* none of them; the step that admits a login raises the IP key's count by
\* exactly one, and no step of the handler, failing or not, touches the counter.
C38_LimiterBeforeLogin ==
    [][/\ logins' # logins =>
              /\ res["w1"].outcome = "next"
              /\ ops["w1"] = AdmittedOps(req["w1"].ip)
       /\ (login' # login \/ gen' # gen \/ issued' # issued \/ users' # users) =>
              /\ res'["w1"].outcome = "handled"
              /\ mstore' = mstore
       /\ (res'["w1"].outcome \in Denials /\ pc["w1"] # "idle") =>
              /\ UNCHANGED <<login, logins, gen, issued, users, tenants, resp, mstore>>
              /\ \A i \in 1..Len(ops'["w1"]) : ops'["w1"][i][1] # "Increment"
       /\ (res'["w1"].outcome = "next" /\ res["w1"].outcome # "next") =>
              MemGetCount(mstore', ipKey(req["w1"].ip), now')
                  = MemGetCount(mstore, ipKey(req["w1"].ip), now) + 1
      ]_vars

\* C38 witness: a login was admitted and answered with a token, and a later
\* request of the same address was denied by the limiter; the token and the
\* last_login of the first are as it left them.
C38_Witness ==
    /\ res["w1"].outcome = "429_ip"
    /\ logins = 1
    /\ issued.has
    /\ resp.status = 200

\* C31: a request whose Authorization header is missing, or is not exactly
\* "Bearer <token>", or whose token jwt.ParseWithClaims rejects, is answered 401
\* by Authenticate alone: no Claims reach the context and the next handler does
\* not run. (Every other request is passed on with its Claims.)
C31_AuthenticateRejects ==
    [][\A h \in AuthHeaders : AuthenticateHeader(h) =>
          LET missing == h.scheme = "" /\ h.rest = <<>>
              bearer  == h.scheme = "Bearer" /\ Len(h.rest) = 1
              r       == ParseWithClaims(h.rest[1], JWTSecret, now)
              invalid == bearer /\ (r.err # "" \/ ~r.ok)
              passed  == val'.has /\ val'.entry = "Authenticate" /\ val'.ok
          IN  IF missing \/ ~bearer \/ invalid
              THEN /\ resp'.status = 401
                   /\ resp'.chain = <<"Authenticate">>
                   /\ ~passed
              ELSE /\ resp'.chain = <<"Authenticate", "Handler">>
                   /\ passed
                   /\ val'.claims = r.claims
      ]_vars

\* C31 witness: a request was answered 401 for the format of its header (a
\* token was issued, so the header may have carried it behind another scheme),
\* Authenticate was the only handler that ran and the context has no Claims.
C31_Witness ==
    /\ issued.has
    /\ resp.status = 401
    /\ resp.error = "Invalid authorization header format"
    /\ resp.chain = <<"Authenticate">>
    /\ ~val.has

\* The rate and token settings of a config are all positive.
Positive(cfg) ==
    /\ cfg.JWTDuration >= 1
    /\ cfg.RateLimitIP >= 1
    /\ cfg.RateLimitUser >= 1
    /\ cfg.RateLimitWindow >= 1

\* C32 (as claimed): the config of a stored tenant changes only in a step of the
\* update operation with a body that passes validation, which replaces
\* auth_method, jwt_duration and the three rate settings by the body's, sets
\* updated_at to the time of the update and leaves the rest; no other step, and
\* no update that fails validation or names an unknown tenant, changes a stored
\* config; all stored configs keep their settings positive.
C32_ConfigChangesByUpdate ==
    [][/\ \A id \in DOMAIN tenants :
              /\ id \in DOMAIN tenants'
              /\ tenants'[id].Config # tenants[id].Config =>
                     \E tok \in Presented, b \in UpdateBodies :
                         /\ UpdateTenantConfig(tok, id, b)
                         /\ ValidateConfig(b)
                         /\ tenants'[id].Config =
                                [tenants[id].Config EXCEPT
                                     !.AuthMethod = b.AuthMethod,
                                     !.JWTDuration = b.JWTDuration,
                                     !.RateLimitIP = b.RateLimitIP,
                                     !.RateLimitUser = b.RateLimitUser,
                                     !.RateLimitWindow = b.RateLimitWindow,
                                     !.UpdatedAt = now]
                         /\ tenants'[id].Config.UpdatedAt >= tenants[id].Config.UpdatedAt
       /\ \A id \in DOMAIN tenants' : Positive(tenants'[id].Config)
      ]_vars

\* C35 (as claimed): a request for the users of an existing tenant T that
\* passed Authenticate reaches the listing iff the tenant_id of its Claims is T,
\* and is answered 403 when it is another tenant's.
C35_ListUsersTenantScoped ==
    [][\A tok \in Presented, id \in TenantParams : ListUsers(tok, id) =>
          LET r == ParseWithClaims(tok, JWTSecret, now)
          IN  (r.err = "" /\ r.ok /\ id # "" /\ GetTenant(tenants, id).err = "") =>
                  /\ resp'.status = 200 <=> r.claims.TenantID = id
                  /\ r.claims.TenantID # id => resp'.status = 403
      ]_vars

\* C36 (as claimed): every request that UpdateTenantConfig answers with success,
\* and every request that changes the config of a tenant, carries Claims whose
\* tenant_id is the tenant of the path.
C36_TenantWriteIsolation ==
    [][\A tok \in Presented, id \in TenantParams, b \in UpdateBodies :
          (/\ UpdateTenantConfig(tok, id, b)
           /\ resp'.entry = "UpdateTenantConfig"
           /\ resp'.status = 200 \/ tenants' # tenants)
              => ParseWithClaims(tok, JWTSecret, now).claims.TenantID = id
      ]_vars

\* C37 (as claimed): after n successful CreateTenant requests the table holds n
\* more tenants than it did; the created tenants have non-empty ids, different
\* from one another, and GetTenant on each id returns the tenant as it was
\* created, whose config carries that id.
C37_TenantsDistinct ==
    LET n == Len(created)
    IN  /\ Cardinality(DOMAIN tenants) = Cardinality(DOMAIN TenantTable) + n
        /\ \A i \in 1..n :
               /\ created[i].ID # ""
               /\ GetTenant(tenants, created[i].ID).err = ""
               /\ GetTenant(tenants, created[i].ID).tenant.Name = created[i].Name
               /\ GetTenant(tenants, created[i].ID).tenant.Config.TenantID = created[i].ID
        /\ \A i, j \in 1..n : i # j => created[i].ID # created[j].ID

====
